---- MODULE Spec2Model ----
(***************************************************************************)
(* Library catalog manager: BookManager (src/book.py), UserManager         *)
(* (src/user.py), CheckoutManager (src/check.py) and the JSON file storage *)
(* (src/storage.py).  The three managers hold in-memory lists loaded from  *)
(* three files at construction and rewrite a whole file after every        *)
(* successful mutation.  Every public operation is one atomic action: the  *)
(* program is single-threaded and each handler runs to completion.         *)
(***************************************************************************)
EXTENDS Naturals, Sequences, FiniteSets

(***************************************************************************)
(* Bound of the model.                                                     *)
(***************************************************************************)
\* longest ledger explored (checkouts that succeed)
MaxLedger == 2

\* program constant: the loan period of Checkout.__init__, in days
LoanPeriodDays == 14

\* argument values the operations are called with
UserIds == {"U1", "U2"}
Isbns == {"ISBN1"}
Titles == {"T1", "T2"}
Authors == {"A1"}
Names == {"N1"}
\* the ISBNs of the lending-desk specification SpecLoan
LoanIsbns == {"ISBN1", "ISBN2"}
\* clock readings datetime.now() returns, in days: the same instant or a
\* later one
Times == {0, 1}

\* Python's None for an optional datetime / optional argument
None == <<>>
Some(x) == <<x>>

\* outcomes of an operation: normal return, or the ValueError it raises
Ok == "ok"
UserNotFound == "User with ID not found"
BookNotFound == "Book with ISBN not found"
BookNotAvailable == "Book with ISBN is not available"
NoActiveCheckout == "No active checkout found for user and book"
BookExists == "Book with ISBN already exists"
UserExists == "User with ID already exists"

VARIABLES
    books,      \* BookManager.books: list of Book
    users,      \* UserManager.users: list of User
    checkouts,  \* CheckoutManager.checkouts: list of Checkout (the ledger)
    now,        \* latest value datetime.now() has returned
    disk,       \* the three JSON files: None when absent, Some(content) else
    last,       \* the call that ran last and how it ended
    writes,     \* the files that call has written, in the order of the writes
    pc          \* "idle" between calls, else the statement a call has reached

vars == <<books, users, checkouts, now, disk, last, writes, pc>>

(***************************************************************************)
(* Entities and their record form.                                         *)
(***************************************************************************)
\* Book(title, author, isbn) with LibraryItem.__init__
Book(title, author, isbn) ==
    [title |-> title, author |-> author, item_id |-> isbn, is_available |-> TRUE]

\* User(name, user_id)
User(name, user_id) ==
    [name |-> name, user_id |-> user_id, borrowed_items |-> <<>>]

\* variant: a constructor whose default due date is 30 days on
Checkout_month(user_id, item_id, checkout_date, due_date, t) ==
    LET cd == IF checkout_date = None THEN t ELSE checkout_date[1]
        dd == IF due_date = None THEN cd + 30 ELSE due_date[1]
    IN  [user_id |-> user_id, item_id |-> item_id, checkout_date |-> cd,
         due_date |-> dd, return_date |-> None]

\* Checkout(user_id, item_id, checkout_date, due_date); an argument of None
\* takes the default (t is what datetime.now() returns at the call)
Checkout(user_id, item_id, checkout_date, due_date, t) ==
    LET cd == IF checkout_date = None THEN t ELSE checkout_date[1]
        dd == IF due_date = None THEN cd + LoanPeriodDays ELSE due_date[1]
    IN  [user_id |-> user_id, item_id |-> item_id, checkout_date |-> cd,
         due_date |-> dd, return_date |-> None]

\* variant: return_item that forgets to stamp the record
Checkout_return_item_unstamped(c, t) == c

\* variant: return_item that rebuilds the record through the constructor
Checkout_return_item_rebuilt(c, t) ==
    [Checkout(c.user_id, c.item_id, None, None, t) EXCEPT !.return_date = Some(t)]

\* Checkout.return_item at clock reading t
Checkout_return_item(c, t) == [c EXCEPT !.return_date = Some(t)]

\* datetime.isoformat / datetime.fromisoformat: a datetime is a day count,
\* its text the pair (week, weekday)
isoformat(d) == [week |-> d \div 7, weekday |-> d % 7]
fromisoformat(s) == s.week * 7 + s.weekday

Book_to_dict(b) ==
    [title |-> b.title, author |-> b.author, isbn |-> b.item_id,
     is_available |-> b.is_available]

Book_from_dict(data) ==
    [Book(data.title, data.author, data.isbn)
        EXCEPT !.is_available = data.is_available]

User_to_dict(u) ==
    [name |-> u.name, user_id |-> u.user_id, borrowed_items |-> u.borrowed_items]

User_from_dict(data) ==
    [User(data.name, data.user_id) EXCEPT !.borrowed_items = data.borrowed_items]

Checkout_to_dict(c) ==
    [user_id |-> c.user_id, item_id |-> c.item_id,
     checkout_date |-> isoformat(c.checkout_date),
     due_date |-> isoformat(c.due_date),
     return_date |-> IF c.return_date # None
                     THEN Some(isoformat(c.return_date[1])) ELSE None]

\* variant: from_dict that lets the constructor work out the due date
Checkout_from_dict_recomputed(data) ==
    LET c == Checkout(data.user_id, data.item_id,
                      Some(fromisoformat(data.checkout_date)), None, 0)
    IN  IF data.return_date # None
        THEN [c EXCEPT !.return_date = Some(fromisoformat(data.return_date[1]))]
        ELSE c

Checkout_from_dict(data) ==
    LET c == Checkout(data.user_id, data.item_id,
                      Some(fromisoformat(data.checkout_date)),
                      Some(fromisoformat(data.due_date)), 0)
    IN  IF data.return_date # None
        THEN [c EXCEPT !.return_date = Some(fromisoformat(data.return_date[1]))]
        ELSE c

(***************************************************************************)
(* Storage: one JSON file per collection.                                  *)
(***************************************************************************)
\* Storage.save_data: open(file_path, 'w') and dump, a full overwrite (the
\* method as its body reads; its def line sits one level too deep in the
\* source file)
save_data(d, file, data) == [d EXCEPT ![file] = Some(data)]

\* storage.py as it stands: the def line of save_data is nested in __init__
\* and its docstring is not indented under it, so compiling the module stops
\* with an IndentationError and no call into it runs
IndentationError == "IndentationError"
save_data_as_written(d, file, data) == d

\* Storage.load_data: the default structure when the file does not exist
load_data(d, file) ==
    IF d[file] = None
    THEN [books |-> <<>>, users |-> <<>>, checkouts |-> <<>>]
    ELSE d[file][1]

\* dict.get(key, [])
get(data, key) == IF key \in DOMAIN data THEN data[key] ELSE <<>>

save_books(d, bs) == save_data(d, "books", [books |-> bs])
load_books(d) == get(load_data(d, "books"), "books")
save_users(d, us) == save_data(d, "users", [users |-> us])
load_users(d) == get(load_data(d, "users"), "users")
save_checkouts(d, cs) == save_data(d, "checkouts", [checkouts |-> cs])
load_checkouts(d) == get(load_data(d, "checkouts"), "checkouts")

\* BookManager._save_books, UserManager._save_users,
\* CheckoutManager._save_checkouts
_save_books(d, bs) == save_books(d, [k \in 1..Len(bs) |-> Book_to_dict(bs[k])])
_save_users(d, us) == save_users(d, [k \in 1..Len(us) |-> User_to_dict(us[k])])
_save_checkouts(d, cs) ==
    save_checkouts(d, [k \in 1..Len(cs) |-> Checkout_to_dict(cs[k])])

(***************************************************************************)
(* List helpers.                                                           *)
(***************************************************************************)
\* next((x for x in s if ...), None) over the set K of indices that match:
\* the smallest index, 0 for None
First(K) == IF K = {} THEN 0 ELSE CHOOSE k \in K : \A j \in K : k <= j

\* list.remove of the element at index k
RemoveAt(s, k) == [j \in 1..(Len(s) - 1) |-> IF j < k THEN s[j] ELSE s[j + 1]]

Range(s) == {s[k] : k \in 1..Len(s)}

\* BookManager.get_book_by_isbn: index of the book, 0 for None
get_book_by_isbn(bs, isbn) == First({k \in 1..Len(bs) : bs[k].item_id = isbn})

\* UserManager.get_user_by_id: index of the user, 0 for None
get_user_by_id(us, user_id) == First({k \in 1..Len(us) : us[k].user_id = user_id})

\* variant: borrow_item without the membership test
borrow_item_append(u, item_id) ==
    [u EXCEPT !.borrowed_items = Append(@, item_id)]

\* User.borrow_item
borrow_item(u, item_id) ==
    IF item_id \notin Range(u.borrowed_items)
    THEN [u EXCEPT !.borrowed_items = Append(@, item_id)]
    ELSE u

\* variant: return_item that pops the last held item instead of item_id
return_item_pop(u, item_id) ==
    IF item_id \in Range(u.borrowed_items)
    THEN [u EXCEPT !.borrowed_items = SubSeq(@, 1, Len(@) - 1)]
    ELSE u

\* User.return_item: list.remove drops the first occurrence
return_item(u, item_id) ==
    IF item_id \in Range(u.borrowed_items)
    THEN [u EXCEPT !.borrowed_items =
                RemoveAt(@, First({k \in 1..Len(@) : @[k] = item_id}))]
    ELSE u

Call(op, args, error) == [op |-> op, args |-> args, error |-> error]

\* variant: the three saves run although the operation raises
Raise_after_saves(op, args, error) ==
    /\ pc = "idle"
    /\ last' = Call(op, args, error)
    /\ disk' = [books |-> Some([books |-> [k \in 1..Len(books) |-> Book_to_dict(books[k])]]),
                users |-> Some([users |-> [k \in 1..Len(users) |-> User_to_dict(users[k])]]),
                checkouts |-> Some([checkouts |->
                    [k \in 1..Len(checkouts) |-> Checkout_to_dict(checkouts[k])]])]
    /\ writes' = <<"checkouts", "books", "users">>
    /\ UNCHANGED <<books, users, checkouts, now, pc>>

\* an operation that raises: nothing is assigned, nothing is saved
Raise(op, args, error) ==
    /\ pc = "idle"
    /\ last' = Call(op, args, error)
    /\ writes' = <<>>
    /\ UNCHANGED <<books, users, checkouts, now, disk, pc>>

(***************************************************************************)
(* Construction: LibraryManagementSystem.__init__ builds the three         *)
(* managers, each loading its list from its file.                          *)
(***************************************************************************)
BookManager_init(d) ==
    LET l == load_books(d) IN [k \in 1..Len(l) |-> Book_from_dict(l[k])]
UserManager_init(d) ==
    LET l == load_users(d) IN [k \in 1..Len(l) |-> User_from_dict(l[k])]
CheckoutManager_init(d) ==
    LET l == load_checkouts(d) IN [k \in 1..Len(l) |-> Checkout_from_dict(l[k])]

NoFiles == [books |-> None, users |-> None, checkouts |-> None]

Loaded(d) ==
    /\ disk = d
    /\ books = BookManager_init(d)
    /\ users = UserManager_init(d)
    /\ checkouts = CheckoutManager_init(d)
    /\ now = 0
    /\ last = Call("__init__", <<>>, Ok)
    /\ writes = <<>>
    /\ pc = "idle"

\* first start: no file exists yet
Init == Loaded(NoFiles)

(***************************************************************************)
(* BookManager                                                             *)
(***************************************************************************)
add_book(title, author, isbn) ==
    IF get_book_by_isbn(books, isbn) # 0
    THEN Raise("add_book", <<isbn>>, BookExists)
    ELSE LET bs == Append(books, Book(title, author, isbn))
         IN  /\ books' = bs
             /\ disk' = _save_books(disk, bs)
             /\ pc = "idle"
             /\ last' = Call("add_book", <<isbn>>, Ok)
             /\ writes' = <<"books">>
             /\ UNCHANGED <<users, checkouts, now, pc>>

\* variant: update_book that replaces the record by a newly built Book
update_book_rebuilt(isbn, title, author) ==
    LET k == get_book_by_isbn(books, isbn)
    IN  IF k = 0
        THEN Raise("update_book", <<isbn>>, BookNotFound)
        ELSE LET bs == [books EXCEPT ![k] =
                           Book(IF title # None THEN title[1] ELSE @.title,
                                IF author # None THEN author[1] ELSE @.author,
                                isbn)]
             IN  /\ books' = bs
                 /\ disk' = _save_books(disk, bs)
                 /\ pc = "idle"
                 /\ last' = Call("update_book", <<isbn>>, Ok)
                 /\ writes' = <<"books">>
                 /\ UNCHANGED <<users, checkouts, now, pc>>

\* title and author are None or a string; only a non-empty string is assigned
update_book(isbn, title, author) ==
    LET k == get_book_by_isbn(books, isbn)
    IN  IF k = 0
        THEN Raise("update_book", <<isbn>>, BookNotFound)
        ELSE LET b1 == IF title # None
                       THEN [books[k] EXCEPT !.title = title[1]] ELSE books[k]
                 b2 == IF author # None
                       THEN [b1 EXCEPT !.author = author[1]] ELSE b1
                 bs == [books EXCEPT ![k] = b2]
             IN  /\ books' = bs
                 /\ disk' = _save_books(disk, bs)
                 /\ pc = "idle"
                 /\ last' = Call("update_book", <<isbn>>, Ok)
                 /\ writes' = <<"books">>
                 /\ UNCHANGED <<users, checkouts, now, pc>>

delete_book(isbn) ==
    LET k == get_book_by_isbn(books, isbn)
    IN  IF k = 0
        THEN Raise("delete_book", <<isbn>>, BookNotFound)
        ELSE LET bs == RemoveAt(books, k)
             IN  /\ books' = bs
                 /\ disk' = _save_books(disk, bs)
                 /\ pc = "idle"
                 /\ last' = Call("delete_book", <<isbn>>, Ok)
                 /\ writes' = <<"books">>
                 /\ UNCHANGED <<users, checkouts, now, pc>>

(***************************************************************************)
(* UserManager                                                             *)
(***************************************************************************)
\* variant: add_user without the lookup
add_user_unchecked(name, user_id) ==
    LET us == Append(users, User(name, user_id))
    IN  /\ users' = us
        /\ disk' = _save_users(disk, us)
        /\ pc = "idle"
        /\ Len(users) < 3
        /\ last' = Call("add_user", <<user_id>>, Ok)
        /\ writes' = <<"users">>
        /\ UNCHANGED <<books, checkouts, now, pc>>

add_user(name, user_id) ==
    IF get_user_by_id(users, user_id) # 0
    THEN Raise("add_user", <<user_id>>, UserExists)
    ELSE LET us == Append(users, User(name, user_id))
         IN  /\ users' = us
             /\ disk' = _save_users(disk, us)
             /\ pc = "idle"
             /\ last' = Call("add_user", <<user_id>>, Ok)
             /\ writes' = <<"users">>
             /\ UNCHANGED <<books, checkouts, now, pc>>

update_user(user_id, name) ==
    LET k == get_user_by_id(users, user_id)
    IN  IF k = 0
        THEN Raise("update_user", <<user_id>>, UserNotFound)
        ELSE LET us == IF name # None
                       THEN [users EXCEPT ![k].name = name[1]] ELSE users
             IN  /\ users' = us
                 /\ disk' = _save_users(disk, us)
                 /\ pc = "idle"
                 /\ last' = Call("update_user", <<user_id>>, Ok)
                 /\ writes' = <<"users">>
                 /\ UNCHANGED <<books, checkouts, now, pc>>

\* variant: delete_user that leaves the file as it is
delete_user_unsaved(user_id) ==
    LET k == get_user_by_id(users, user_id)
    IN  IF k = 0
        THEN Raise("delete_user", <<user_id>>, UserNotFound)
        ELSE /\ users' = RemoveAt(users, k)
             /\ pc = "idle"
             /\ last' = Call("delete_user", <<user_id>>, Ok)
             /\ writes' = <<>>
             /\ UNCHANGED <<books, checkouts, now, disk, pc>>

delete_user(user_id) ==
    LET k == get_user_by_id(users, user_id)
    IN  IF k = 0
        THEN Raise("delete_user", <<user_id>>, UserNotFound)
        ELSE LET us == RemoveAt(users, k)
             IN  /\ users' = us
                 /\ disk' = _save_users(disk, us)
                 /\ pc = "idle"
                 /\ last' = Call("delete_user", <<user_id>>, Ok)
                 /\ writes' = <<"users">>
                 /\ UNCHANGED <<books, checkouts, now, pc>>

(***************************************************************************)
(* CheckoutManager                                                         *)
(***************************************************************************)
\* the three saves that end a successful checkout_book / return_book, and
\* the files they write, in their order
SaveAll(d, cs, bs, us) == _save_users(_save_books(_save_checkouts(d, cs), bs), us)
SavedAll == <<"checkouts", "books", "users">>

\* variant: checkout_book without the availability gate
checkout_error_ungated(bs, us, user_id, isbn) ==
    IF get_user_by_id(us, user_id) = 0 THEN UserNotFound
    ELSE IF get_book_by_isbn(bs, isbn) = 0 THEN BookNotFound
    ELSE Ok

\* variant: checkout_book that looks at the book before the user
checkout_error_book_first(bs, us, user_id, isbn) ==
    LET b == get_book_by_isbn(bs, isbn)
    IN  IF b = 0 THEN BookNotFound
        ELSE IF get_user_by_id(us, user_id) = 0 THEN UserNotFound
        ELSE IF ~bs[b].is_available THEN BookNotAvailable
        ELSE Ok

\* the checks of checkout_book in their order: the ValueError raised, or Ok
checkout_error(bs, us, user_id, isbn) ==
    LET u == get_user_by_id(us, user_id)
        b == get_book_by_isbn(bs, isbn)
    IN  IF u = 0 THEN UserNotFound
        ELSE IF b = 0 THEN BookNotFound
        ELSE IF ~bs[b].is_available THEN BookNotAvailable
        ELSE Ok

\* variant: checkout_book that marks the whole catalog as lent
checkout_book_whole_catalog(user_id, isbn, t) ==
    LET u == get_user_by_id(users, user_id)
        e == checkout_error(books, users, user_id, isbn)
    IN  IF e # Ok
        THEN Raise("checkout_book", <<user_id, isbn>>, e)
        ELSE LET cs == Append(checkouts, Checkout(user_id, isbn, None, None, t))
                 bs == [k \in 1..Len(books) |-> [books[k] EXCEPT !.is_available = FALSE]]
                 us == [users EXCEPT ![u] = borrow_item(@, isbn)]
             IN  /\ pc = "idle"
                 /\ Len(checkouts) < MaxLedger
                 /\ checkouts' = cs
                 /\ books' = bs
                 /\ users' = us
                 /\ now' = t
                 /\ disk' = SaveAll(disk, cs, bs, us)
                 /\ last' = Call("checkout_book", <<user_id, isbn>>, Ok)
                 /\ writes' = SavedAll
                 /\ pc' = pc

\* t: what datetime.now() returns if the call gets as far as reading it
checkout_book(user_id, isbn, t) ==
    LET u == get_user_by_id(users, user_id)
        b == get_book_by_isbn(books, isbn)
        e == checkout_error(books, users, user_id, isbn)
    IN  IF e # Ok
        THEN Raise("checkout_book", <<user_id, isbn>>, e)
        ELSE LET cs == Append(checkouts, Checkout(user_id, isbn, None, None, t))
                 bs == [books EXCEPT ![b].is_available = FALSE]
                 us == [users EXCEPT ![u] = borrow_item(@, isbn)]
             IN  /\ pc = "idle"
                 /\ Len(checkouts) < MaxLedger
                 /\ checkouts' = cs
                 /\ books' = bs
                 /\ users' = us
                 /\ now' = t
                 /\ disk' = SaveAll(disk, cs, bs, us)
                 /\ last' = Call("checkout_book", <<user_id, isbn>>, Ok)
                 /\ writes' = SavedAll
                 /\ pc' = pc

\* variant: the scan matches the item alone, whoever borrowed it
active_checkout_any_user(cs, user_id, isbn) ==
    First({k \in 1..Len(cs) : cs[k].item_id = isbn /\ cs[k].return_date = None})

\* variant: the scan matches closed checkouts too
active_checkout_any_state(cs, user_id, isbn) ==
    First({k \in 1..Len(cs) : cs[k].user_id = user_id /\ cs[k].item_id = isbn})

\* the checkout return_book closes: index of the first open checkout of
\* (user_id, isbn) in ledger order, 0 for None
active_checkout(cs, user_id, isbn) ==
    First({k \in 1..Len(cs) : /\ cs[k].user_id = user_id
                              /\ cs[k].item_id = isbn
                              /\ cs[k].return_date = None})

\* the checks of return_book in their order: the ValueError raised, or Ok
return_error(bs, us, cs, user_id, isbn) ==
    IF get_user_by_id(us, user_id) = 0 THEN UserNotFound
    ELSE IF get_book_by_isbn(bs, isbn) = 0 THEN BookNotFound
    ELSE IF active_checkout(cs, user_id, isbn) = 0 THEN NoActiveCheckout
    ELSE Ok

return_book(user_id, isbn, t) ==
    LET u == get_user_by_id(users, user_id)
        b == get_book_by_isbn(books, isbn)
        c == active_checkout(checkouts, user_id, isbn)
        e == return_error(books, users, checkouts, user_id, isbn)
    IN  IF e # Ok
        THEN Raise("return_book", <<user_id, isbn>>, e)
        ELSE LET cs == [checkouts EXCEPT ![c] = Checkout_return_item(@, t)]
                 bs == [books EXCEPT ![b].is_available = TRUE]
                 us == [users EXCEPT ![u] = return_item(@, isbn)]
             IN  /\ pc = "idle"
                 /\ checkouts' = cs
                 /\ books' = bs
                 /\ users' = us
                 /\ now' = t
                 /\ disk' = SaveAll(disk, cs, bs, us)
                 /\ last' = Call("return_book", <<user_id, isbn>>, Ok)
                 /\ writes' = SavedAll
                 /\ pc' = pc

(***************************************************************************)
(* Specifications.                                                         *)
(***************************************************************************)
\* the clock does not run backwards
Clock == {t \in Times : t >= now}

OptTitles == {None} \cup {Some(x) : x \in Titles}
OptAuthors == {None} \cup {Some(x) : x \in Authors}
OptNames == {None} \cup {Some(x) : x \in Names}

CheckoutBook == \E u \in UserIds, i \in Isbns, t \in Clock : checkout_book(u, i, t)
ReturnBook == \E u \in UserIds, i \in Isbns, t \in Clock : return_book(u, i, t)
AddBook == \E ti \in Titles, a \in Authors, i \in Isbns : add_book(ti, a, i)
UpdateBook == \E i \in Isbns, ti \in OptTitles, a \in OptAuthors : update_book(i, ti, a)
DeleteBook == \E i \in Isbns : delete_book(i)
AddUser == \E n \in Names, u \in UserIds : add_user(n, u)
UpdateUser == \E u \in UserIds, n \in OptNames : update_user(u, n)
DeleteUser == \E u \in UserIds : delete_user(u)

Next ==
    \/ CheckoutBook
    \/ ReturnBook
    \/ AddBook
    \/ UpdateBook
    \/ DeleteBook
    \/ AddUser
    \/ UpdateUser
    \/ DeleteUser

\* the whole system, from the first start with empty stores
Spec == Init /\ [][Next]_vars

(***************************************************************************)
(* The lending desk alone: a catalog and borrowers entered earlier, nothing *)
(* lent yet, and only checkout_book / return_book calls from then on.      *)
(***************************************************************************)
\* what add_book calls leave: books with distinct ISBNs, all available
Catalogs ==
    {<<>>}
    \cup {<<Book("T1", "A1", i)>> : i \in LoanIsbns}
    \cup UNION {{<<Book("T1", "A1", i), Book("T2", "A1", j)>> :
                    j \in LoanIsbns \ {i}} : i \in LoanIsbns}

\* what add_user calls leave: users with distinct ids, holding nothing
Borrowers ==
    {<<>>}
    \cup {<<User("N1", u)>> : u \in UserIds}
    \cup UNION {{<<User("N1", u), User("N1", v)>> :
                    v \in UserIds \ {u}} : u \in UserIds}

InitLoan ==
    \E bs \in Catalogs, us \in Borrowers :
        Loaded(_save_users(_save_books(NoFiles, bs), us))

LoanCheckoutBook ==
    \E u \in UserIds, i \in LoanIsbns, t \in Clock : checkout_book(u, i, t)
LoanReturnBook ==
    \E u \in UserIds, i \in LoanIsbns, t \in Clock : return_book(u, i, t)

NextLoan ==
    \/ LoanCheckoutBook
    \/ LoanReturnBook

SpecLoan == InitLoan /\ [][NextLoan]_vars

(***************************************************************************)
(* The lending desk statement by statement: checkout_book / return_book    *)
(* mutate the three lists (check.py:132-135, 164-166), then run their      *)
(* three saves one after the other (check.py:137-139, 168-170).            *)
(***************************************************************************)
\* a call that has not returned yet
Running == "running"

\* variant: the users file is written before the books file
after_save_users_first(stmt) ==
    CASE stmt = "_save_checkouts" -> "_save_users"
      [] stmt = "_save_users" -> "_save_books"
      [] stmt = "_save_books" -> "idle"

\* the statement that follows a save; "idle" when the call returns
after_save(stmt) ==
    CASE stmt = "_save_checkouts" -> "_save_books"
      [] stmt = "_save_books" -> "_save_users"
      [] stmt = "_save_users" -> "idle"

\* the file a save statement writes
file_of(stmt) ==
    CASE stmt = "_save_checkouts" -> "checkouts"
      [] stmt = "_save_books" -> "books"
      [] stmt = "_save_users" -> "users"

\* variant: the ledger write carries the catalog with it
run_save_with_catalog(d, stmt, cs, bs, us) ==
    CASE stmt = "_save_checkouts" -> _save_books(_save_checkouts(d, cs), bs)
      [] stmt = "_save_books" -> _save_books(d, bs)
      [] stmt = "_save_users" -> _save_users(d, us)

\* the save statement itself, run on the lists as they are in memory
run_save(d, stmt, cs, bs, us) ==
    CASE stmt = "_save_checkouts" -> _save_checkouts(d, cs)
      [] stmt = "_save_books" -> _save_books(d, bs)
      [] stmt = "_save_users" -> _save_users(d, us)

\* checkout_book up to its first save
checkout_book_mutate(user_id, isbn, t) ==
    LET u == get_user_by_id(users, user_id)
        b == get_book_by_isbn(books, isbn)
        e == checkout_error(books, users, user_id, isbn)
    IN  IF e # Ok
        THEN Raise("checkout_book", <<user_id, isbn>>, e)
        ELSE /\ pc = "idle"
             /\ Len(checkouts) < MaxLedger
             /\ checkouts' = Append(checkouts, Checkout(user_id, isbn, None, None, t))
             /\ books' = [books EXCEPT ![b].is_available = FALSE]
             /\ users' = [users EXCEPT ![u] = borrow_item(@, isbn)]
             /\ now' = t
             /\ last' = Call("checkout_book", <<user_id, isbn>>, Running)
             /\ writes' = <<>>
             /\ pc' = "_save_checkouts"
             /\ UNCHANGED disk

\* return_book up to its first save
return_book_mutate(user_id, isbn, t) ==
    LET u == get_user_by_id(users, user_id)
        b == get_book_by_isbn(books, isbn)
        c == active_checkout(checkouts, user_id, isbn)
        e == return_error(books, users, checkouts, user_id, isbn)
    IN  IF e # Ok
        THEN Raise("return_book", <<user_id, isbn>>, e)
        ELSE /\ pc = "idle"
             /\ checkouts' = [checkouts EXCEPT ![c] = Checkout_return_item(@, t)]
             /\ books' = [books EXCEPT ![b].is_available = TRUE]
             /\ users' = [users EXCEPT ![u] = return_item(@, isbn)]
             /\ now' = t
             /\ last' = Call("return_book", <<user_id, isbn>>, Running)
             /\ writes' = <<>>
             /\ pc' = "_save_checkouts"
             /\ UNCHANGED disk

\* one save statement of the call in progress; the call returns after the last
SaveStep ==
    /\ pc # "idle"
    /\ disk' = run_save(disk, pc, checkouts, books, users)
    /\ writes' = Append(writes, file_of(pc))
    /\ pc' = after_save(pc)
    /\ last' = IF after_save(pc) = "idle" THEN [last EXCEPT !.error = Ok] ELSE last
    /\ UNCHANGED <<books, users, checkouts, now>>

StepCheckoutBook ==
    \E u \in UserIds, i \in LoanIsbns, t \in Clock : checkout_book_mutate(u, i, t)
StepReturnBook ==
    \E u \in UserIds, i \in LoanIsbns, t \in Clock : return_book_mutate(u, i, t)

NextSteps ==
    \/ StepCheckoutBook
    \/ StepReturnBook
    \/ SaveStep

SpecSteps == InitLoan /\ [][NextSteps]_vars

(***************************************************************************)
(* Record forms: objects of the three classes are saved and the program is *)
(* started again on the files.                                             *)
(***************************************************************************)
\* dates of the sample loans, in days
SampleDates == {0, 6, 7, 14}

\* Book objects: either availability
SampleBooks ==
    {[Book(ti, a, i) EXCEPT !.is_available = v] :
        ti \in Titles, a \in Authors, i \in Isbns, v \in BOOLEAN}

\* User objects: held lists of every length up to two
SampleUsers ==
    {[User(n, u) EXCEPT !.borrowed_items = h] :
        n \in Names, u \in {"U1"},
        h \in {<<>>, <<"ISBN1">>, <<"ISBN1", "ISBN2">>, <<"ISBN2", "ISBN1">>}}

\* Checkout objects: the constructor with explicit dates, open or returned
SampleCheckouts ==
    {[Checkout("U1", "ISBN1", Some(cd), Some(dd), 0) EXCEPT !.return_date = rd] :
        cd \in SampleDates, dd \in SampleDates,
        rd \in {None} \cup {Some(t) : t \in SampleDates}}

InitRecords ==
    \E b \in SampleBooks, u \in SampleUsers, c \in SampleCheckouts :
        /\ books = <<b>>
        /\ users = <<u>>
        /\ checkouts = <<c>>
        /\ now = 0
        /\ disk = NoFiles
        /\ last = Call("__init__", <<>>, Ok)
        /\ writes = <<>>
        /\ pc = "idle"

\* the three saves of the lists as they are
SaveLists ==
    /\ pc = "idle"
    /\ disk' = SaveAll(disk, checkouts, books, users)
    /\ last' = Call("_save", <<>>, Ok)
    /\ writes' = SavedAll
    /\ UNCHANGED <<books, users, checkouts, now, pc>>

\* the program is started again: the managers are built from the files
Restart ==
    /\ books' = BookManager_init(disk)
    /\ users' = UserManager_init(disk)
    /\ checkouts' = CheckoutManager_init(disk)
    /\ last' = Call("__init__", <<>>, Ok)
    /\ writes' = <<>>
    /\ pc' = "idle"
    /\ UNCHANGED <<now, disk>>

NextRecords ==
    \/ SaveLists
    \/ Restart

SpecRecords == InitRecords /\ [][NextRecords]_vars

(***************************************************************************)
(* The lending desk, statement by statement, where the process may end at  *)
(* any statement and be started again on the files.                        *)
(***************************************************************************)
\* one book entered and any borrowers, nothing lent yet
InitCrash ==
    \E us \in Borrowers :
        Loaded(_save_users(_save_books(NoFiles, <<Book("T1", "A1", "ISBN1")>>), us))

NextCrash ==
    \/ StepCheckoutBook
    \/ StepReturnBook
    \/ SaveStep
    \/ Restart

SpecCrash == InitCrash /\ [][NextCrash]_vars

(***************************************************************************)
(* One User object and its held list: borrow_item and return_item applied  *)
(* to any list of ids, as from_dict may have read it.                      *)
(***************************************************************************)
MaxHeld == 3
HeldIds == {"ISBN1", "ISBN2", "ISBN3"}
HeldLists == UNION {[1..n -> HeldIds] : n \in 0..MaxHeld}

InitHeld ==
    \E h \in HeldLists :
        /\ users = <<[User("N1", "U1") EXCEPT !.borrowed_items = h]>>
        /\ books = <<>>
        /\ checkouts = <<>>
        /\ now = 0
        /\ disk = NoFiles
        /\ last = Call("__init__", <<>>, Ok)
        /\ writes = <<>>
        /\ pc = "idle"

BorrowItem ==
    \E x \in HeldIds :
        /\ users' = [users EXCEPT ![1] = borrow_item(@, x)]
        /\ last' = Call("borrow_item", <<x>>, Ok)
        /\ UNCHANGED <<books, checkouts, now, disk, writes, pc>>

ReturnItem ==
    \E x \in HeldIds :
        /\ users' = [users EXCEPT ![1] = return_item(@, x)]
        /\ last' = Call("return_item", <<x>>, Ok)
        /\ UNCHANGED <<books, checkouts, now, disk, writes, pc>>

NextHeld ==
    \/ BorrowItem
    \/ ReturnItem

SpecHeld == InitHeld /\ [][NextHeld]_vars

(***************************************************************************)
(* The three stores alone, called as storage.py stands.                    *)
(***************************************************************************)
MaxStored == 3
Files == {"books", "users", "checkouts"}
StoredRecords ==
    {Book_to_dict(Book("T1", "A1", "ISBN1")),
     User_to_dict(User("N1", "U1")),
     Checkout_to_dict(Checkout("U1", "ISBN1", None, None, 0))}
StoredLists == UNION {[1..n -> StoredRecords] : n \in 0..MaxStored}

InitStorage ==
    /\ books = <<>>
    /\ users = <<>>
    /\ checkouts = <<>>
    /\ now = 0
    /\ disk = NoFiles
    /\ last = Call("__init__", <<>>, Ok)
    /\ writes = <<>>
    /\ pc = "idle"

\* save_books / save_users / save_checkouts of a list
Save ==
    \E f \in Files, s \in StoredLists :
        /\ disk' = save_data_as_written(disk, f, [g \in {f} |-> s])
        /\ last' = Call("save_data", <<f, s>>, IndentationError)
        /\ UNCHANGED <<books, users, checkouts, now, writes, pc>>

\* load_books / load_users / load_checkouts
Load ==
    \E f \in Files :
        /\ last' = Call("load_data", <<f>>, IndentationError)
        /\ UNCHANGED <<books, users, checkouts, now, disk, writes, pc>>

NextStorage ==
    \/ Save
    \/ Load

SpecStorage == InitStorage /\ [][NextStorage]_vars

(***************************************************************************)
(* The whole system where the process may be ended between two operations  *)
(* and started again on the files.                                         *)
(***************************************************************************)
NextRestart ==
    \/ Next
    \/ Restart

SpecRestart == Init /\ [][NextRestart]_vars

(***************************************************************************)
(* Properties.                                                             *)
(***************************************************************************)
HasUser(u) == \E k \in 1..Len(users) : users[k].user_id = u
HasBook(i) == \E k \in 1..Len(books) : books[k].item_id = i
IsOpen(c) == c.return_date = None
\* ledger positions of the open loans of item i / of the pair (u, i)
OpenLoansOfItem(i) ==
    {k \in 1..Len(checkouts) : checkouts[k].item_id = i /\ IsOpen(checkouts[k])}
OpenLoansOfPair(u, i) ==
    {k \in OpenLoansOfItem(i) : checkouts[k].user_id = u}
\* item ids user u has an open loan for
OpenItemsOfUser(u) ==
    {checkouts[k].item_id :
        k \in {j \in 1..Len(checkouts) :
                 checkouts[j].user_id = u /\ IsOpen(checkouts[j])}}
\* ledger, availabilities and held lists are what they were
NothingMutated == books' = books /\ users' = users /\ checkouts' = checkouts
Called(op, args) == last'.op = op /\ last'.args = args

\* C1 (mutual exclusion, checkout/return only): an item is unavailable iff the
\* ledger holds exactly one open loan for it, and available iff it holds none.
MutualExclusion ==
    \A k \in 1..Len(books) :
        LET n == Cardinality(OpenLoansOfItem(books[k].item_id))
        IN  /\ ~books[k].is_available <=> n = 1
            /\ books[k].is_available <=> n = 0

\* one item lent and open, another lent and returned
MutualExclusionWitness ==
    /\ \E k \in 1..Len(books) :
          ~books[k].is_available /\ OpenLoansOfItem(books[k].item_id) # {}
    /\ \E k \in 1..Len(books), j \in 1..Len(checkouts) :
          /\ books[k].is_available
          /\ checkouts[j].item_id = books[k].item_id
          /\ ~IsOpen(checkouts[j])

\* C2 (set consistency, checkout/return only): each user's borrowed_items,
\* as a set, is the set of item ids of that user's open loans.
SetConsistency ==
    \A k \in 1..Len(users) :
        Range(users[k].borrowed_items) = OpenItemsOfUser(users[k].user_id)

\* a user who borrowed two items and returned the first still holds the other
SetConsistencyWitness ==
    \E k \in 1..Len(users), j \in 1..Len(checkouts) :
        /\ Len(users[k].borrowed_items) = 1
        /\ checkouts[j].user_id = users[k].user_id
        /\ ~IsOpen(checkouts[j])
        /\ checkouts[j].item_id \notin Range(users[k].borrowed_items)
        /\ last = Call("return_book", <<users[k].user_id, checkouts[j].item_id>>, Ok)

\* C3 (no double checkout): checkout_book by an existing user of an existing
\* item that is not available raises the not-available error and leaves the
\* ledger, every availability and every held list as they were.
NoDoubleCheckout ==
    [][\A u \in UserIds, i \in LoanIsbns :
          ( /\ Called("checkout_book", <<u, i>>)
            /\ HasUser(u)
            /\ \E k \in 1..Len(books) :
                  books[k].item_id = i /\ ~books[k].is_available )
          => (last'.error = BookNotAvailable /\ NothingMutated)]_vars

\* U1 holds the item, U2 was refused and holds nothing
NoDoubleCheckoutWitness ==
    /\ last = Call("checkout_book", <<"U2", "ISBN1">>, BookNotAvailable)
    /\ \E k \in OpenLoansOfItem("ISBN1") : checkouts[k].user_id = "U1"
    /\ \E k \in 1..Len(users) :
          users[k].user_id = "U2" /\ users[k].borrowed_items = <<>>

\* C4 (return requires an open loan): return_book by an existing user of an
\* existing item with no open loan of that pair raises the no-active-checkout
\* error and leaves the ledger, availabilities and held lists as they were.
ReturnRequiresOpenLoan ==
    [][\A u \in UserIds, i \in LoanIsbns :
          ( /\ Called("return_book", <<u, i>>)
            /\ HasUser(u)
            /\ HasBook(i)
            /\ OpenLoansOfPair(u, i) = {} )
          => (last'.error = NoActiveCheckout /\ NothingMutated)]_vars

\* the item is on loan to U1 and U2's return of it was refused
ReturnRequiresOpenLoanWitness ==
    /\ last = Call("return_book", <<"U2", "ISBN1">>, NoActiveCheckout)
    /\ OpenLoansOfPair("U1", "ISBN1") # {}
    /\ \E k \in 1..Len(books) :
          books[k].item_id = "ISBN1" /\ ~books[k].is_available

\* C5 (lookup failures): checkout_book and return_book raise user-not-found
\* when the user id is absent (whether or not the item exists), book-not-found
\* when the user exists and the item id is absent, and mutate nothing then.
LookupFailures ==
    [][\A u \in UserIds, i \in LoanIsbns :
          (Called("checkout_book", <<u, i>>) \/ Called("return_book", <<u, i>>))
          => /\ ~HasUser(u) => (last'.error = UserNotFound /\ NothingMutated)
             /\ (HasUser(u) /\ ~HasBook(i))
                   => (last'.error = BookNotFound /\ NothingMutated)]_vars

\* neither the user nor the item exists and the user is the one reported
LookupFailuresWitness ==
    \E u \in UserIds, i \in LoanIsbns :
        /\ last = Call("checkout_book", <<u, i>>, UserNotFound)
        /\ ~HasUser(u)
        /\ ~HasBook(i)
        /\ users # <<>>

\* C6 (whole system): the ledger holds at most one open loan per
\* (user_id, item_id) pair.
AtMostOneOpenLoanPerPair ==
    \A u \in UserIds, i \in LoanIsbns : Cardinality(OpenLoansOfPair(u, i)) <= 1

\* C7 (whole system): every item in the catalog is unavailable iff the ledger
\* holds an open loan for its id.
ItemInvariant ==
    \A k \in 1..Len(books) :
        ~books[k].is_available <=> OpenLoansOfItem(books[k].item_id) # {}

\* C8 (whole system): every open loan's item_id is in the catalog.
OpenLoanItemInCatalog ==
    \A k \in 1..Len(checkouts) :
        IsOpen(checkouts[k]) => HasBook(checkouts[k].item_id)

\* C9 (append-only ledger): no step removes or reorders a record or changes
\* its user_id, item_id, checkout_date or due_date; the ledger grows by one
\* on a successful checkout_book and keeps its length on every other step.
LedgerAppendOnly ==
    [][/\ Len(checkouts') >= Len(checkouts)
       /\ \A k \in 1..Len(checkouts) :
             /\ checkouts'[k].user_id = checkouts[k].user_id
             /\ checkouts'[k].item_id = checkouts[k].item_id
             /\ checkouts'[k].checkout_date = checkouts[k].checkout_date
             /\ checkouts'[k].due_date = checkouts[k].due_date
       /\ Len(checkouts') =
             IF last'.op = "checkout_book" /\ last'.error = Ok
             THEN Len(checkouts) + 1 ELSE Len(checkouts)]_vars

\* a later clock reading closed a loan whose record kept its dates
LedgerAppendOnlyWitness ==
    /\ last.op = "return_book"
    /\ last.error = Ok
    /\ \E k \in 1..Len(checkouts) :
          /\ checkouts[k].return_date = Some(now)
          /\ checkouts[k].checkout_date < now
          /\ checkouts[k].due_date = checkouts[k].checkout_date + LoanPeriodDays

\* the call checkout_book(v, i) succeeded and appended one open record of
\* (v, i), leaving every earlier record as it was
AppendedOpen(v, i) ==
    /\ last'.error = Ok
    /\ Len(checkouts') = Len(checkouts) + 1
    /\ SubSeq(checkouts', 1, Len(checkouts)) = checkouts
    /\ checkouts'[Len(checkouts')].user_id = v
    /\ checkouts'[Len(checkouts')].item_id = i
    /\ IsOpen(checkouts'[Len(checkouts')])

\* C10 (closed is terminal): a record whose return_date is set is never
\* changed again; the checkout_book of item i by an existing user that
\* follows a successful return_book of i succeeds and appends a new open
\* record; and so does any later one that finds the item in the catalog and
\* available.
ClosedIsTerminal ==
    [][/\ \A k \in 1..Len(checkouts) :
             ~IsOpen(checkouts[k])
             => k <= Len(checkouts') /\ checkouts'[k] = checkouts[k]
       /\ \A u \in UserIds, v \in UserIds, i \in LoanIsbns :
             ( /\ last = Call("return_book", <<u, i>>, Ok)
               /\ Called("checkout_book", <<v, i>>)
               /\ HasUser(v) )
             => AppendedOpen(v, i)
       /\ \A v \in UserIds, i \in LoanIsbns :
             ( /\ Called("checkout_book", <<v, i>>)
               /\ HasUser(v)
               /\ \E k \in 1..Len(books) :
                     books[k].item_id = i /\ books[k].is_available
               /\ \E k \in 1..Len(checkouts) :
                     checkouts[k].item_id = i /\ ~IsOpen(checkouts[k]) )
             => AppendedOpen(v, i)]_vars

\* the pair that was returned is lent again: a closed record followed by an
\* open one of the same pair, written at a later clock reading
ClosedIsTerminalWitness ==
    /\ last.op = "checkout_book"
    /\ last.error = Ok
    /\ Len(checkouts) = 2
    /\ checkouts[1].user_id = checkouts[2].user_id
    /\ checkouts[1].item_id = checkouts[2].item_id
    /\ ~IsOpen(checkouts[1])
    /\ IsOpen(checkouts[2])
    /\ checkouts[2].checkout_date > checkouts[1].checkout_date

\* C11 (return closes in place): a successful return_book(u, i) sets the
\* return_date of an open record of (u, i) and changes nothing else in the
\* ledger, makes item i available and takes i off u's held list; and a
\* return_book(u, i) that directly follows it raises the no-active-checkout
\* error.
ReturnClosesInPlace ==
    [][\A u \in UserIds, i \in LoanIsbns :
          /\ (Called("return_book", <<u, i>>) /\ last'.error = Ok)
             => /\ Len(checkouts') = Len(checkouts)
                /\ \E k \in OpenLoansOfPair(u, i) :
                      /\ ~IsOpen(checkouts'[k])
                      /\ checkouts' =
                            [checkouts EXCEPT ![k].return_date = checkouts'[k].return_date]
                /\ \A k \in 1..Len(books') :
                      books'[k].item_id = i => books'[k].is_available
                /\ \A k \in 1..Len(users') :
                      users'[k].user_id = u => i \notin Range(users'[k].borrowed_items)
          /\ (last = Call("return_book", <<u, i>>, Ok) /\ Called("return_book", <<u, i>>))
             => last'.error = NoActiveCheckout]_vars

\* the whole in-memory collection in its record form, as file f holds it
\* after a full overwrite
WholeCollection(f) ==
    CASE f = "checkouts" ->
           [checkouts |-> [k \in 1..Len(checkouts) |-> Checkout_to_dict(checkouts[k])]]
      [] f = "books" -> [books |-> [k \in 1..Len(books) |-> Book_to_dict(books[k])]]
      [] f = "users" -> [users |-> [k \in 1..Len(users) |-> User_to_dict(users[k])]]

\* C12 (three ordered writes): a checkout_book or return_book that succeeds
\* has written exactly three files, checkouts then books then users; each
\* write replaces one file by the whole in-memory collection and leaves the
\* other two files alone; and the lists in memory change only before the
\* first write of the call.
ThreeOrderedWrites ==
    [][/\ ( /\ pc' = "idle"
            /\ last'.op \in {"checkout_book", "return_book"}
            /\ last'.error = Ok )
          => writes' = <<"checkouts", "books", "users">>
       /\ (books' # books \/ users' # users \/ checkouts' # checkouts)
          => (writes' = <<>> /\ disk' = disk)
       /\ writes' # <<>>
          => /\ Len(writes') = Len(writes) + 1
             /\ NothingMutated
             /\ \A f \in {"checkouts", "books", "users"} :
                   disk'[f] = IF f = writes'[Len(writes')]
                              THEN Some(WholeCollection(f)) ELSE disk[f]]_vars

\* a return that ran to its end, after the checkout it closes
ThreeOrderedWritesWitness ==
    /\ pc = "idle"
    /\ last.op = "return_book"
    /\ last.error = Ok
    /\ writes = <<"checkouts", "books", "users">>
    /\ \E k \in 1..Len(checkouts) : ~IsOpen(checkouts[k])
    /\ \A f \in {"checkouts", "books", "users"} : disk[f] = Some(WholeCollection(f))

\* C14 (round trip): to_dict followed by from_dict gives back a Checkout, Book
\* or User equal field by field; an unset return_date is null in the record
\* and a set one is a timestamp that reads back as the same date; due_date is
\* read back, not recomputed; so the lists built from the saved files equal
\* the lists that were saved.
RoundTrip ==
    /\ \A k \in 1..Len(checkouts) :
          LET c == checkouts[k]
              r == Checkout_from_dict(Checkout_to_dict(c))
          IN  /\ r.user_id = c.user_id
              /\ r.item_id = c.item_id
              /\ r.checkout_date = c.checkout_date
              /\ r.due_date = c.due_date
              /\ r.return_date = c.return_date
              /\ (Checkout_to_dict(c).return_date = None) <=> (c.return_date = None)
    /\ \A k \in 1..Len(books) : Book_from_dict(Book_to_dict(books[k])) = books[k]
    /\ \A k \in 1..Len(users) : User_from_dict(User_to_dict(users[k])) = users[k]
    /\ last.op = "_save"
       => /\ CheckoutManager_init(disk) = checkouts
          /\ BookManager_init(disk) = books
          /\ UserManager_init(disk) = users

\* started again on the files: a returned loan whose due date is not the
\* default of its checkout date
RoundTripWitness ==
    /\ last.op = "__init__"
    /\ disk # NoFiles
    /\ \E k \in 1..Len(checkouts) :
          /\ checkouts[k].return_date # None
          /\ checkouts[k].due_date # checkouts[k].checkout_date + 14
    /\ \E k \in 1..Len(users) : Len(users[k].borrowed_items) = 2
    /\ \E k \in 1..Len(books) : ~books[k].is_available

\* the process ends during a checkout_book after the ledger write and before
\* the catalog write, and is started again
CrashAfterLedgerWrite ==
    /\ pc = "_save_books"
    /\ last.op = "checkout_book"
    /\ last'.op = "__init__"

\* the files at that point hold an open loan of the call's pair as the last
\* ledger record while the catalog file still has the item available
PersistedOpenLoanOfAvailableItem ==
    LET cs == load_checkouts(disk)
        bs == load_books(disk)
        b == get_book_by_isbn(BookManager_init(disk), last.args[2])
    IN  /\ cs # <<>>
        /\ cs[Len(cs)].user_id = last.args[1]
        /\ cs[Len(cs)].item_id = last.args[2]
        /\ cs[Len(cs)].return_date = None
        /\ b # 0
        /\ bs[b].is_available

\* the borrower record in the users file does not hold the item of the call
PersistedBorrowerDoesNotHold ==
    \A k \in 1..Len(load_users(disk)) :
        load_users(disk)[k].user_id = last.args[1]
            => last.args[2] \notin Range(load_users(disk)[k].borrowed_items)

\* nothing is rolled back: the files stay and the managers hold what they say
RestartLoadsFiles ==
    /\ disk' = disk
    /\ checkouts' = CheckoutManager_init(disk)
    /\ books' = BookManager_init(disk)
    /\ users' = UserManager_init(disk)

\* C13 (as stated): a process ending during checkout_book between the ledger
\* write and the catalog write leaves files with an open loan of an item that
\* the catalog file has available and the borrower file does not hold, and a
\* restart loads exactly those files.
CrashDivergence ==
    [][CrashAfterLedgerWrite
          => /\ PersistedOpenLoanOfAvailableItem
             /\ PersistedBorrowerDoesNotHold
             /\ RestartLoadsFiles]_vars

\* C13 (amended): as above, but the borrower file is the one from before the
\* call, whatever it held: neither the mutations nor the ledger write of a
\* checkout_book touch the catalog file or the borrower file.
CrashDivergenceFromBefore ==
    [][/\ CrashAfterLedgerWrite
          => /\ PersistedOpenLoanOfAvailableItem
             /\ RestartLoadsFiles
       /\ (last'.op = "checkout_book" /\ pc' \in {"_save_checkouts", "_save_books"})
          => /\ disk'.books = disk.books
             /\ disk'.users = disk.users]_vars

\* started again after such an ending: an open loan of an available item that
\* its borrower does not hold
CrashDivergenceWitness ==
    /\ last.op = "__init__"
    /\ pc = "idle"
    /\ \E k \in 1..Len(checkouts) :
          /\ checkouts[k].return_date = None
          /\ \E b \in 1..Len(books) :
                /\ books[b].item_id = checkouts[k].item_id
                /\ books[b].is_available
          /\ \E u \in 1..Len(users) :
                /\ users[u].user_id = checkouts[k].user_id
                /\ checkouts[k].item_id \notin Range(users[u].borrowed_items)

\* C15 (loan period): a successful checkout_book appends one record at the end
\* of the ledger, with return_date unset, checkout_date the time of the call
\* and due_date exactly 14 days after checkout_date; no later step, a return
\* included, changes the due_date of a record.
FourteenDays ==
    [][/\ (last'.op = "checkout_book" /\ last'.error = Ok)
          => /\ Len(checkouts') = Len(checkouts) + 1
             /\ SubSeq(checkouts', 1, Len(checkouts)) = checkouts
             /\ checkouts'[Len(checkouts')].user_id = last'.args[1]
             /\ checkouts'[Len(checkouts')].item_id = last'.args[2]
             /\ checkouts'[Len(checkouts')].return_date = None
             /\ checkouts'[Len(checkouts')].checkout_date = now'
             /\ checkouts'[Len(checkouts')].due_date
                   = checkouts'[Len(checkouts')].checkout_date + 14
       /\ \A k \in 1..Len(checkouts) :
             /\ k <= Len(checkouts')
             /\ checkouts'[k].due_date = checkouts[k].due_date]_vars

\* a loan made at time 0 and returned at time 1, due on day 14, and a loan
\* just made at time 1, due on day 15
FourteenDaysWitness ==
    /\ last.op = "checkout_book"
    /\ last.error = Ok
    /\ Len(checkouts) = 2
    /\ checkouts[1].checkout_date = 0
    /\ checkouts[1].return_date = Some(1)
    /\ checkouts[1].due_date = 14
    /\ checkouts[2].checkout_date = 1
    /\ checkouts[2].due_date = 15
    /\ checkouts[2].return_date = None

\* number of entries of h equal to x
Occurrences(h, x) == Cardinality({k \in 1..Len(h) : h[k] = x})
NoDuplicates(h) == \A x \in Range(h) : Occurrences(h, x) = 1

\* C16 (held list): borrow_item(x) appends x only when it is absent and
\* otherwise leaves the list as it is, so it never adds a second entry of x,
\* and applied again it changes nothing; return_item(x) with x absent leaves
\* the list unchanged; a list without duplicates stays without duplicates
\* under both, so lists grown from the empty list have none.
HeldListIdempotent ==
    [][LET h == users[1].borrowed_items
           h2 == users'[1].borrowed_items
           x == last'.args[1]
       IN  /\ last'.op = "borrow_item"
              => /\ h2 = IF x \in Range(h) THEN h ELSE Append(h, x)
                 /\ Occurrences(h2, x) = IF x \in Range(h) THEN Occurrences(h, x) ELSE 1
                 /\ borrow_item(users'[1], x) = users'[1]
           /\ (last'.op = "return_item" /\ x \notin Range(h)) => h2 = h
           /\ NoDuplicates(h) => NoDuplicates(h2)]_vars

\* a second borrow_item of an id already held, on a list without duplicates
HeldListIdempotentWitness ==
    /\ last.op = "borrow_item"
    /\ Len(users[1].borrowed_items) = 2
    /\ users[1].borrowed_items[1] = last.args[1]
    /\ NoDuplicates(users[1].borrowed_items)

\* C17 (edits leave loan bookkeeping alone): update_book changes at most the
\* title and author of the named book and the availability of no book;
\* update_user changes at most the name of the named user and the held list
\* of no user; add_book, update_book, delete_book, add_user, update_user and
\* delete_user leave the ledger as it is.
EditsKeepBookkeeping ==
    [][/\ last'.op = "update_book"
          => /\ Len(books') = Len(books)
             /\ \A k \in 1..Len(books) :
                   /\ books'[k].item_id = books[k].item_id
                   /\ books'[k].is_available = books[k].is_available
                   /\ books[k].item_id # last'.args[1] => books'[k] = books[k]
             /\ users' = users
       /\ last'.op = "update_user"
          => /\ Len(users') = Len(users)
             /\ \A k \in 1..Len(users) :
                   /\ users'[k].user_id = users[k].user_id
                   /\ users'[k].borrowed_items = users[k].borrowed_items
                   /\ users[k].user_id # last'.args[1] => users'[k] = users[k]
             /\ books' = books
       /\ last'.op \in {"add_book", "update_book", "delete_book",
                        "add_user", "update_user", "delete_user"}
          => checkouts' = checkouts]_vars

\* a lent book was edited: still unavailable, its loan still open, its
\* borrower still holding it
EditsKeepBookkeepingWitness ==
    /\ last.op = "update_book"
    /\ last.error = Ok
    /\ \E k \in 1..Len(books) :
          /\ books[k].item_id = last.args[1]
          /\ books[k].title = "T2"
          /\ ~books[k].is_available
          /\ \E c \in 1..Len(checkouts), u \in 1..Len(users) :
                /\ checkouts[c].item_id = books[k].item_id
                /\ checkouts[c].return_date = None
                /\ users[u].user_id = checkouts[c].user_id
                /\ books[k].item_id \in Range(users[u].borrowed_items)

\* no two books with one ISBN, no two users with one id
UniqueIds ==
    /\ \A j, k \in 1..Len(books) : books[j].item_id = books[k].item_id => j = k
    /\ \A j, k \in 1..Len(users) : users[j].user_id = users[k].user_id => j = k

\* C18 (unique ids): in every state the ISBNs of the catalog and the ids of
\* the users are pairwise distinct; add_book with an ISBN in the catalog and
\* add_user with an id in use fail with an error, and change no list and no
\* file.
DuplicateKeyRejected ==
    /\ []UniqueIds
    /\ [][/\ (last'.op = "add_book" /\ get_book_by_isbn(books, last'.args[1]) # 0)
             => /\ last'.error = BookExists
                /\ NothingMutated
                /\ disk' = disk
                /\ writes' = <<>>
          /\ (last'.op = "add_user" /\ get_user_by_id(users, last'.args[1]) # 0)
             => /\ last'.error = UserExists
                /\ NothingMutated
                /\ disk' = disk
                /\ writes' = <<>>]_vars

\* add_user refused for an id in use, with both ids entered
DuplicateKeyRejectedWitness ==
    /\ last.op = "add_user"
    /\ last.error = UserExists
    /\ Len(users) = 2
    /\ Len(books) = 1
    /\ writes = <<>>

\* C19 (full-overwrite store): a load of a collection never written gives the
\* empty sequence; a save of s succeeds, after it a load of that collection
\* gives exactly s whatever was stored before, and the other two collections
\* are as they were.
FullOverwriteStore ==
    [][/\ last'.op = "save_data"
          => /\ last'.error = Ok
             /\ get(load_data(disk', last'.args[1]), last'.args[1]) = last'.args[2]
             /\ \A g \in Files \ {last'.args[1]} : disk'[g] = disk[g]
       /\ last'.op = "load_data"
          => /\ last'.error = Ok
             /\ disk' = disk
             /\ disk[last'.args[1]] = None
                => get(load_data(disk, last'.args[1]), last'.args[1]) = <<>>]_vars

\* the smallest ledger position among the open loans of (u, i)
FirstOpenLoanOfPair(u, i) ==
    CHOOSE m \in OpenLoansOfPair(u, i) : \A k \in OpenLoansOfPair(u, i) : m <= k

\* return_book(u, i) closed the first open loan of (u, i) and nothing else
ClosedFirstOnly(u, i) ==
    /\ last'.error = Ok
    /\ Len(checkouts') = Len(checkouts)
    /\ ~IsOpen(checkouts'[FirstOpenLoanOfPair(u, i)])
    /\ \A k \in 1..Len(checkouts) :
          k # FirstOpenLoanOfPair(u, i) => checkouts'[k] = checkouts[k]

\* C20 (tie-break): when the ledger holds more than one open loan of (u, i),
\* return_book(u, i) does not fail, closes the one with the smallest ledger
\* position and leaves every other record, the other open loans of (u, i)
\* included, as it was.
FirstOpenLoanClosed ==
    [][\A u \in UserIds, i \in Isbns :
          (Called("return_book", <<u, i>>) /\ Cardinality(OpenLoansOfPair(u, i)) > 1)
             => ClosedFirstOnly(u, i)]_vars

\* the same for calls whose user and book are found (check.py:152-158): the
\* scan of line 160 stops at the first open loan of the pair
FirstOpenLoanClosedWhenFound ==
    [][\A u \in UserIds, i \in Isbns :
          (/\ Called("return_book", <<u, i>>)
           /\ HasUser(u)
           /\ HasBook(i)
           /\ Cardinality(OpenLoansOfPair(u, i)) > 1)
             => ClosedFirstOnly(u, i)]_vars

\* what a start on the files would load is what the managers hold
PersistedEqualsMemory ==
    /\ CheckoutManager_init(disk) = checkouts
    /\ BookManager_init(disk) = books
    /\ UserManager_init(disk) = users

\* C21 (save on every mutation): with every operation run to its end, after
\* each operation of the three managers, failed or not, the three files hold
\* what the three lists hold; a restart between two operations therefore
\* loads the lists as they were and leaves the files and the clock as they
\* were, so the operations that follow see the same state.
SaveOnEveryMutation ==
    /\ []PersistedEqualsMemory
    /\ [][last'.op = "__init__"
             => /\ NothingMutated
                /\ disk' = disk
                /\ now' = now
                /\ pc' = pc]_vars

\* restarted with a lent and retitled catalog entry, two borrowers and a
\* closed and an open loan in the files
SaveOnEveryMutationWitness ==
    /\ last.op = "__init__"
    /\ Len(checkouts) = 2
    /\ checkouts[1].return_date # None
    /\ checkouts[2].return_date = None
    /\ Len(users) = 2
    /\ \E k \in 1..Len(books) : ~books[k].is_available /\ books[k].title = "T2"
    /\ disk.checkouts # None

\* the catalog and the borrowers after a successful call for (u, i): only the
\* availability of item i and the held list of user u may differ
OnlyPairTouched(u, i) ==
    /\ Len(books') = Len(books)
    /\ \A k \in 1..Len(books) :
          books'[k] = IF books[k].item_id = i
                      THEN [books[k] EXCEPT !.is_available = books'[k].is_available]
                      ELSE books[k]
    /\ Len(users') = Len(users)
    /\ \A k \in 1..Len(users) :
          users'[k] = IF users[k].user_id = u
                      THEN [users[k] EXCEPT !.borrowed_items = users'[k].borrowed_items]
                      ELSE users[k]

\* C22 (frame of a loan operation): a successful checkout_book(u, i) or
\* return_book(u, i) changes at most the availability of item i, the held
\* list of user u and one ledger record, the appended one or the closed one;
\* every other field of every book and user and every other ledger record is
\* as it was.
LoanTouchesOnlyItsPair ==
    [][\A u \in UserIds, i \in LoanIsbns :
          /\ (Called("checkout_book", <<u, i>>) /\ last'.error = Ok)
             => /\ OnlyPairTouched(u, i)
                /\ Len(checkouts') = Len(checkouts) + 1
                /\ SubSeq(checkouts', 1, Len(checkouts)) = checkouts
          /\ (Called("return_book", <<u, i>>) /\ last'.error = Ok)
             => /\ OnlyPairTouched(u, i)
                /\ Len(checkouts') = Len(checkouts)
                /\ Cardinality({k \in 1..Len(checkouts) :
                                   checkouts'[k] # checkouts[k]}) = 1]_vars

\* a return by one user while the other item stays lent to the other user
LoanTouchesOnlyItsPairWitness ==
    /\ last.op = "return_book"
    /\ last.error = Ok
    /\ Len(books) = 2
    /\ Len(users) = 2
    /\ \E k \in 1..Len(books) :
          /\ books[k].item_id # last.args[2]
          /\ ~books[k].is_available
    /\ \E k \in 1..Len(users) :
          /\ users[k].user_id # last.args[1]
          /\ users[k].borrowed_items # <<>>
    /\ \E k \in 1..Len(checkouts) : checkouts[k].return_date = None

\* C23 (failed loan operations write nothing): a checkout_book or return_book
\* that raises (user not found, book not found, book not available, no active
\* checkout) runs no save: no file is written, the three files are what they
\* were, and so are the three lists.
FailedLoanWritesNothing ==
    [][(/\ last'.op \in {"checkout_book", "return_book"}
        /\ last'.error \in {UserNotFound, BookNotFound, BookNotAvailable, NoActiveCheckout})
          => /\ writes' = <<>>
             /\ disk' = disk
             /\ NothingMutated]_vars

\* a return_book refused for want of an open loan, after a loan was made and
\* returned and the files written
FailedLoanWritesNothingWitness ==
    /\ last.op = "return_book"
    /\ last.error = NoActiveCheckout
    /\ writes = <<>>
    /\ disk.checkouts # None
    /\ Len(checkouts) > 0

\* C24 (every open loan is closable): in every state, return_book for the
\* user and item of any open ledger record would succeed, and every book
\* that is not available has some user whose return_book of it would succeed.
EveryOpenLoanClosable ==
    /\ \A k \in 1..Len(checkouts) :
          IsOpen(checkouts[k])
             => return_error(books, users, checkouts,
                             checkouts[k].user_id, checkouts[k].item_id) = Ok
    /\ \A b \in 1..Len(books) :
          ~books[b].is_available
             => \E u \in UserIds :
                   return_error(books, users, checkouts, u, books[b].item_id) = Ok

\* the process ends between the first and the last save of a checkout_book or
\* return_book and is started again
CrashBetweenWrites ==
    /\ pc \in {"_save_books", "_save_users"}
    /\ last.op \in {"checkout_book", "return_book"}
    /\ last'.op = "__init__"

\* C25 (no item stuck by an interrupted call): after the process ended
\* between the saves of a checkout_book or return_book and was started again,
\* for every book of the catalog some user of the store can check it out or
\* can return it.
NoItemStuck ==
    [][CrashBetweenWrites
          => \A b \in 1..Len(books') :
                \E u \in 1..Len(users') :
                   \/ checkout_error(books', users',
                                     users'[u].user_id, books'[b].item_id) = Ok
                   \/ return_error(books', users', checkouts',
                                   users'[u].user_id, books'[b].item_id) = Ok]_vars

====
